---- MODULE Spec2Model ----
(***************************************************************************)
(* Model of the Huffman encoder of src/huffnpuff/huffnpuff.py.             *)
(*                                                                         *)
(* The state is one HuffmanEncoder instance (heap, codes, reverse_codes,   *)
(* padding), the Node objects it has allocated, the locals of a running    *)
(* compress call (text, freq_dict, encoded_text, padded_text, padding) and *)
(* the contents of the output file.  compress is followed statement by     *)
(* statement (pc names the method about to run); the loop of merge_nodes   *)
(* advances one iteration per step.  Python strings are sequences of       *)
(* one-character strings; bit strings are sequences of "0" and "1".        *)
(* heapq is the standard library's binary heap (heappush, heappop,         *)
(* _siftdown, _siftup), ordered by Node.__lt__ alone.                      *)
(***************************************************************************)
EXTENDS Integers, Sequences, FiniteSets, TLC

VARIABLES
    pc,             \* the method of the pipeline about to run, "idle" or "done"
    caller,         \* "compress" or "test_padding": who runs the pipeline
    err,            \* the exception raised at pc, or "none"
    calls,          \* number of calls made on this instance
    text,           \* compress: text
    freq_dict,      \* compress: freq_dict, <<char, count>> pairs in insertion order
    nodes,          \* the Node objects alive; a Node is referred to by its index
    heap,           \* self.heap: sequence of Node references
    codes,          \* self.codes: char -> bit string
    reverse_codes,  \* self.reverse_codes: bit string -> char
    padding,        \* self.padding
    encoded_text,   \* compress: encoded_text
    padded_text,    \* compress: padded_text
    ret_padding,    \* compress: padding (second component of pad_encoded_text's result)
    output          \* bytes of the output file, <<>> while not written

vars == <<pc, caller, err, calls, text, freq_dict, nodes, heap, codes,
          reverse_codes, padding, encoded_text, padded_text, ret_padding, output>>

(***************************************************************************)
(* Bounds of the model and the inputs drawn.                               *)
(***************************************************************************)
MaxLen == 5
MaxBits == 9
MaxReuseLen == 2
MaxCalls == 2

Symbols == {"A", "B", "C", "D"}

test_text == <<"A", "A", "B", "B", "B", "C", "C", "C", "C">>

SeqsUpTo(S, n) == UNION {[1..k -> S] : k \in 0..n}

Texts == SeqsUpTo(Symbols, MaxLen) \cup {test_text}

ReuseTexts == SeqsUpTo(Symbols, MaxReuseLen)

BitStrings == SeqsUpTo({"0", "1"}, MaxBits)

Range(s) == {s[i] : i \in DOMAIN s}

(***************************************************************************)
(* Node                                                                    *)
(***************************************************************************)
None == 0

NoChar == "None"

Node(char, freq) == [char |-> char, freq |-> freq, left |-> None, right |-> None]

\* Faulty variant of lt: the comparison reversed, which turns the heap into a max-heap.
lt_reversed(ns, a, b) == ns[a].freq > ns[b].freq

\* Node.__lt__ on the objects a and b refer to.
lt(ns, a, b) == ns[a].freq < ns[b].freq

(***************************************************************************)
(* heapq.  Positions are 0-based as in the library; h[p + 1] is heap[p].   *)
(***************************************************************************)
RECURSIVE siftdown_loop(_, _, _, _, _)
siftdown_loop(ns, h, startpos, pos, newitem) ==
    IF pos > startpos
    THEN LET parentpos == (pos - 1) \div 2
             parent == h[parentpos + 1]
         IN  IF lt(ns, newitem, parent)
             THEN siftdown_loop(ns, [h EXCEPT ![pos + 1] = parent],
                                startpos, parentpos, newitem)
             ELSE [h EXCEPT ![pos + 1] = newitem]
    ELSE [h EXCEPT ![pos + 1] = newitem]

_siftdown(ns, h, startpos, pos) == siftdown_loop(ns, h, startpos, pos, h[pos + 1])

RECURSIVE siftup_loop(_, _, _, _, _)
siftup_loop(ns, h, pos, childpos, newitem) ==
    IF childpos < Len(h)
    THEN LET rightpos == childpos + 1
             c == IF rightpos < Len(h) /\ ~lt(ns, h[childpos + 1], h[rightpos + 1])
                  THEN rightpos
                  ELSE childpos
         IN  siftup_loop(ns, [h EXCEPT ![pos + 1] = h[c + 1]], c, 2 * c + 1, newitem)
    ELSE [heap |-> [h EXCEPT ![pos + 1] = newitem], pos |-> pos]

_siftup(ns, h, pos) ==
    LET r == siftup_loop(ns, h, pos, 2 * pos + 1, h[pos + 1])
    IN  _siftdown(ns, r.heap, pos, r.pos)

heappush(ns, h, item) == _siftdown(ns, Append(h, item), 0, Len(h))

\* Called on a non-empty heap only; on an empty one list.pop raises IndexError.
heappop(ns, h) ==
    LET lastelt == h[Len(h)]
        rest == SubSeq(h, 1, Len(h) - 1)
    IN  IF rest # <<>>
        THEN [item |-> rest[1], heap |-> _siftup(ns, [rest EXCEPT ![1] = lastelt], 0)]
        ELSE [item |-> lastelt, heap |-> rest]

(***************************************************************************)
(* dict: freq_dict keeps insertion order (make_heap iterates over it);     *)
(* codes and reverse_codes are only looked up, so they are functions.      *)
(***************************************************************************)
EmptyDict == [k \in {} |-> k]

Put(d, k, v) == [x \in (DOMAIN d) \cup {k} |-> IF x = k THEN v ELSE d[x]]

HasKey(d, k) == \E i \in DOMAIN d : d[i][1] = k

KeyIndex(d, k) == CHOOSE i \in DOMAIN d : d[i][1] = k

dict_get(d, k, default) == IF HasKey(d, k) THEN d[KeyIndex(d, k)][2] ELSE default

dict_set(d, k, v) ==
    IF HasKey(d, k) THEN [d EXCEPT ![KeyIndex(d, k)] = <<k, v>>] ELSE Append(d, <<k, v>>)

(***************************************************************************)
(* HuffmanEncoder's methods as functions of their arguments and of the     *)
(* fields they read.                                                       *)
(***************************************************************************)
\* Faulty variant of make_frequency_dict: get's default is 1, so a first occurrence counts twice.
RECURSIVE freq_loop_default1(_, _, _)
freq_loop_default1(t, i, d) ==
    IF i > Len(t)
    THEN d
    ELSE freq_loop_default1(t, i + 1, dict_set(d, t[i], dict_get(d, t[i], 1) + 1))

make_frequency_dict_default1(t) == freq_loop_default1(t, 1, <<>>)

RECURSIVE freq_loop(_, _, _)
freq_loop(t, i, d) ==
    IF i > Len(t)
    THEN d
    ELSE freq_loop(t, i + 1, dict_set(d, t[i], dict_get(d, t[i], 0) + 1))

make_frequency_dict(t) == freq_loop(t, 1, <<>>)

\* make_heap: one Node per item, pushed in the dict's order.
RECURSIVE make_heap_loop(_, _, _, _)
make_heap_loop(fd, i, ns, h) ==
    IF i > Len(fd)
    THEN [nodes |-> ns, heap |-> h]
    ELSE LET ns2 == Append(ns, Node(fd[i][1], fd[i][2]))
         IN  make_heap_loop(fd, i + 1, ns2, heappush(ns2, h, Len(ns2)))

make_heap(fd, ns, h) == make_heap_loop(fd, 1, ns, h)

\* Faulty variant of merged: the children swapped.
merged_swapped(ns, node1, node2) ==
    [char |-> NoChar, freq |-> ns[node1].freq + ns[node2].freq,
     left |-> node2, right |-> node1]

\* Faulty variant of merged: the frequency of the second pop is left out.
merged_first_freq(ns, node1, node2) ==
    [char |-> NoChar, freq |-> ns[node1].freq, left |-> node1, right |-> node2]

\* The node one iteration of merge_nodes creates from its two pops.
merged(ns, node1, node2) ==
    [char |-> NoChar, freq |-> ns[node1].freq + ns[node2].freq,
     left |-> node1, right |-> node2]

\* One iteration of the loop of merge_nodes.
merge_iteration(ns, h) ==
    LET p1 == heappop(ns, h)
        p2 == heappop(ns, p1.heap)
        ns2 == Append(ns, merged(ns, p1.item, p2.item))
    IN  [nodes |-> ns2, heap |-> heappush(ns2, p2.heap, Len(ns2))]

\* Faulty variant of make_codes_helper: both children extend the code with "0".
RECURSIVE make_codes_helper_same_bit(_, _, _, _)
make_codes_helper_same_bit(ns, node, current_code, d) ==
    IF node = None
    THEN d
    ELSE IF ns[node].char # NoChar
         THEN [codes |-> Put(d.codes, ns[node].char, current_code),
               reverse_codes |-> Put(d.reverse_codes, current_code, ns[node].char)]
         ELSE make_codes_helper_same_bit(ns, ns[node].right, Append(current_code, "0"),
                  make_codes_helper_same_bit(ns, ns[node].left, Append(current_code, "0"), d))

RECURSIVE make_codes_helper(_, _, _, _)
make_codes_helper(ns, node, current_code, d) ==
    IF node = None
    THEN d
    ELSE IF ns[node].char # NoChar
         THEN [codes |-> Put(d.codes, ns[node].char, current_code),
               reverse_codes |-> Put(d.reverse_codes, current_code, ns[node].char)]
         ELSE make_codes_helper(ns, ns[node].right, Append(current_code, "1"),
                  make_codes_helper(ns, ns[node].left, Append(current_code, "0"), d))

RECURSIVE get_encoded_text(_, _)
get_encoded_text(t, cs) ==
    IF t = <<>> THEN <<>> ELSE cs[Head(t)] \o get_encoded_text(Tail(t), cs)

Zeros(n) == [i \in 1..n |-> "0"]

\* Faulty variant of pad_encoded_text: no padding when the length is a multiple of 8.
pad_encoded_text_mod8(et) ==
    LET p == (8 - (Len(et) % 8)) % 8
    IN  [text |-> et \o Zeros(p), padding |-> p]

pad_encoded_text(et) ==
    LET p == 8 - (Len(et) % 8)
    IN  [text |-> et \o Zeros(p), padding |-> p]

\* int(byte, 2)
RECURSIVE int2(_)
int2(s) ==
    IF s = <<>>
    THEN 0
    ELSE 2 * int2(SubSeq(s, 1, Len(s) - 1)) + (IF s[Len(s)] = "1" THEN 1 ELSE 0)

Min(a, b) == IF a < b THEN a ELSE b

\* for i in range(0, len(padded_text), 8): final_bytes.append(int(padded_text[i:i + 8], 2))
final_bytes(pt) ==
    [k \in 1..((Len(pt) + 7) \div 8) |->
        int2(SubSeq(pt, 8 * (k - 1) + 1, Min(8 * k, Len(pt))))]

(***************************************************************************)
(* Actions                                                                 *)
(***************************************************************************)
Terminal == pc = "done" \/ err # "none"

\* compress, lines 105-111: the existence check and the read of the file.
Compress(texts, maxcalls) ==
    /\ pc = "idle" \/ Terminal
    /\ calls < maxcalls
    /\ \E exists \in BOOLEAN, t \in texts :
          /\ IF exists
             THEN /\ text' = t
                  /\ pc' = "make_frequency_dict"
                  /\ err' = "none"
             ELSE /\ text' = <<>>
                  /\ pc' = "compress"
                  /\ err' = "FileNotFoundError"
    /\ calls' = calls + 1
    /\ caller' = "compress"
    /\ freq_dict' = <<>>
    /\ encoded_text' = <<>>
    /\ padded_text' = <<>>
    /\ ret_padding' = 0
    /\ output' = <<>>
    /\ UNCHANGED <<nodes, heap, codes, reverse_codes, padding>>

CompressFresh == calls = 0 /\ Compress(Texts, 1)

CompressAgain == Compress(ReuseTexts, MaxCalls)

\* test_padding: pad_encoded_text called by itself on a fresh encoder.
TestPadding ==
    /\ pc = "idle"
    /\ calls = 0
    /\ \E s \in BitStrings : encoded_text' = s
    /\ calls' = calls + 1
    /\ caller' = "test_padding"
    /\ pc' = "pad_encoded_text"
    /\ UNCHANGED <<err, text, freq_dict, nodes, heap, codes, reverse_codes,
                   padding, padded_text, ret_padding, output>>

MakeFrequencyDict ==
    /\ pc = "make_frequency_dict"
    /\ err = "none"
    /\ freq_dict' = make_frequency_dict(text)
    /\ pc' = "make_heap"
    /\ UNCHANGED <<caller, err, calls, text, nodes, heap, codes, reverse_codes,
                   padding, encoded_text, padded_text, ret_padding, output>>

MakeHeap ==
    /\ pc = "make_heap"
    /\ err = "none"
    /\ LET r == make_heap(freq_dict, nodes, heap)
       IN  /\ nodes' = r.nodes
           /\ heap' = r.heap
    /\ pc' = "merge_nodes"
    /\ UNCHANGED <<caller, err, calls, text, freq_dict, codes, reverse_codes,
                   padding, encoded_text, padded_text, ret_padding, output>>

\* merge_nodes, one pass through the body of its while loop.
MergeNodesIter ==
    /\ pc = "merge_nodes"
    /\ err = "none"
    /\ Len(heap) > 1
    /\ LET r == merge_iteration(nodes, heap)
       IN  /\ nodes' = r.nodes
           /\ heap' = r.heap
    /\ UNCHANGED <<pc, caller, err, calls, text, freq_dict, codes, reverse_codes,
                   padding, encoded_text, padded_text, ret_padding, output>>

\* merge_nodes, the loop condition fails and the method returns.
MergeNodesExit ==
    /\ pc = "merge_nodes"
    /\ err = "none"
    /\ ~(Len(heap) > 1)
    /\ pc' = "make_codes"
    /\ UNCHANGED <<caller, err, calls, text, freq_dict, nodes, heap, codes,
                   reverse_codes, padding, encoded_text, padded_text, ret_padding,
                   output>>

\* make_codes: heappop raises IndexError on an empty heap.  The tree hangs
\* from the local root alone and is gone when make_codes returns.
MakeCodes ==
    /\ pc = "make_codes"
    /\ err = "none"
    /\ IF heap = <<>>
       THEN /\ err' = "IndexError"
            /\ UNCHANGED <<pc, nodes, heap, codes, reverse_codes>>
       ELSE LET p == heappop(nodes, heap)
                d == make_codes_helper(nodes, p.item, <<>>,
                        [codes |-> codes, reverse_codes |-> reverse_codes])
            IN  /\ heap' = p.heap
                /\ codes' = d.codes
                /\ reverse_codes' = d.reverse_codes
                /\ nodes' = IF p.heap = <<>> THEN <<>> ELSE nodes
                /\ pc' = "get_encoded_text"
                /\ err' = "none"
    /\ UNCHANGED <<caller, calls, text, freq_dict, padding, encoded_text,
                   padded_text, ret_padding, output>>

GetEncodedText ==
    /\ pc = "get_encoded_text"
    /\ err = "none"
    /\ IF Range(text) \subseteq DOMAIN codes
       THEN /\ encoded_text' = get_encoded_text(text, codes)
            /\ pc' = "pad_encoded_text"
            /\ err' = "none"
       ELSE /\ err' = "KeyError"
            /\ UNCHANGED <<pc, encoded_text>>
    /\ UNCHANGED <<caller, calls, text, freq_dict, nodes, heap, codes,
                   reverse_codes, padding, padded_text, ret_padding, output>>

PadEncodedText ==
    /\ pc = "pad_encoded_text"
    /\ err = "none"
    /\ LET r == pad_encoded_text(encoded_text)
       IN  /\ padded_text' = r.text
           /\ ret_padding' = r.padding
           /\ padding' = r.padding
    /\ pc' = IF caller = "compress" THEN "write" ELSE "done"
    /\ UNCHANGED <<caller, err, calls, text, freq_dict, nodes, heap, codes,
                   reverse_codes, encoded_text, output>>

\* compress, lines 120-131: pack the bits and write header byte and payload.
WriteOutput ==
    /\ pc = "write"
    /\ err = "none"
    /\ output' = <<ret_padding>> \o final_bytes(padded_text)
    /\ pc' = "done"
    /\ UNCHANGED <<caller, err, calls, text, freq_dict, nodes, heap, codes,
                   reverse_codes, padding, encoded_text, padded_text, ret_padding>>

Init ==
    /\ pc = "idle"
    /\ caller = "compress"
    /\ err = "none"
    /\ calls = 0
    /\ text = <<>>
    /\ freq_dict = <<>>
    /\ nodes = <<>>
    /\ heap = <<>>
    /\ codes = EmptyDict
    /\ reverse_codes = EmptyDict
    /\ padding = 0
    /\ encoded_text = <<>>
    /\ padded_text = <<>>
    /\ ret_padding = 0
    /\ output = <<>>

Pipeline ==
    \/ MakeFrequencyDict
    \/ MakeHeap
    \/ MergeNodesIter
    \/ MergeNodesExit
    \/ MakeCodes
    \/ GetEncodedText
    \/ PadEncodedText
    \/ WriteOutput

\* One call on a fresh encoder.
Next == CompressFresh \/ TestPadding \/ Pipeline

Spec == Init /\ [][Next]_vars

\* compress called again and again on one encoder.
NextReuse == CompressAgain \/ Pipeline

SpecReuse == Init /\ [][NextReuse]_vars

(***************************************************************************)
(* The decoder the specification describes (the repository has none):      *)
(* header byte = padding, payload unpacked most significant bit first,     *)
(* the trailing padding bits dropped, the rest consumed bit by bit against *)
(* reverse_codes.                                                          *)
(***************************************************************************)
RECURSIVE Pow2(_)
Pow2(n) == IF n = 0 THEN 1 ELSE 2 * Pow2(n - 1)

bits_of_byte(b) == [i \in 1..8 |-> IF (b \div Pow2(8 - i)) % 2 = 1 THEN "1" ELSE "0"]

RECURSIVE unpack(_)
unpack(bs) == IF bs = <<>> THEN <<>> ELSE bits_of_byte(Head(bs)) \o unpack(Tail(bs))

RECURSIVE decode_bits(_, _, _, _)
decode_bits(bits, cur, rc, out) ==
    IF bits = <<>>
    THEN [ok |-> cur = <<>>, symbols |-> out]
    ELSE LET c == Append(cur, Head(bits))
         IN  IF c \in DOMAIN rc
             THEN decode_bits(Tail(bits), <<>>, rc, Append(out, rc[c]))
             ELSE decode_bits(Tail(bits), c, rc, out)

decode(payload, rc) ==
    LET bits == unpack(Tail(payload))
    IN  IF payload[1] > Len(bits)
        THEN [ok |-> FALSE, symbols |-> <<>>]
        ELSE decode_bits(SubSeq(bits, 1, Len(bits) - payload[1]), <<>>, rc, <<>>)

(***************************************************************************)
(* Vocabulary of the properties                                            *)
(***************************************************************************)
Count(t, c) == Cardinality({i \in DOMAIN t : t[i] = c})

RECURSIVE SumCounts(_)
SumCounts(fd) == IF fd = <<>> THEN 0 ELSE Head(fd)[2] + SumCounts(Tail(fd))

IsPrefix(a, b) == Len(a) <= Len(b) /\ SubSeq(b, 1, Len(a)) = a

NumSyms == Cardinality(Range(text))

\* compress has returned from make_frequency_dict.
FreqDictBuilt ==
    /\ caller = "compress"
    /\ pc \in {"make_heap", "merge_nodes", "make_codes", "get_encoded_text",
               "pad_encoded_text", "write", "done"}

\* compress has returned from make_codes.
CodesMade ==
    /\ caller = "compress"
    /\ err = "none"
    /\ pc \in {"get_encoded_text", "pad_encoded_text", "write", "done"}

\* pad_encoded_text has returned.
PadDone == err = "none" /\ pc \in {"write", "done"}

\* compress has read an existing, empty file.
EmptyRead ==
    /\ caller = "compress"
    /\ calls > 0
    /\ err # "FileNotFoundError"
    /\ text = <<>>

RECURSIVE HeapFreqSum(_, _)
HeapFreqSum(ns, h) == IF h = <<>> THEN 0 ELSE ns[Head(h)].freq + HeapFreqSum(ns, Tail(h))

RECURSIVE Leaves(_, _)
Leaves(ns, node) ==
    IF ns[node].char # NoChar
    THEN {ns[node].char}
    ELSE Leaves(ns, ns[node].left) \cup Leaves(ns, ns[node].right)

NumInternal == Cardinality({i \in DOMAIN nodes : nodes[i].char = NoChar})

\* Total bits of a code: the sum over the symbols of frequency times length.
RECURSIVE CodeCost(_, _)
CodeCost(fd, cs) ==
    IF fd = <<>> THEN 0 ELSE Head(fd)[2] * Len(cs[Head(fd)[1]]) + CodeCost(Tail(fd), cs)

RECURSIVE LenCost(_, _, _)
LenCost(fd, l, i) == IF i > Len(fd) THEN 0 ELSE fd[i][2] * l[i] + LenCost(fd, l, i + 1)

RECURSIVE KraftSum(_, _, _)
KraftSum(l, n, i) == IF i > n THEN 0 ELSE Pow2(n - l[i]) + KraftSum(l, n, i + 1)

\* Kraft-McMillan: a prefix-free binary code with codeword lengths l[1..n]
\* exists iff the sum of 2^-l[i] is at most 1.  Lengths above n never lower
\* the cost, so the minimum is taken over lengths 0..n.
MinCost(fd) ==
    LET n == Len(fd)
        feasible == {l \in [1..n -> 0..n] : KraftSum(l, n, 1) <= Pow2(n)}
        costs == {LenCost(fd, l, 1) : l \in feasible}
    IN  CHOOSE m \in costs : \A x \in costs : m <= x

(***************************************************************************)
(* Properties                                                              *)
(***************************************************************************)

\* C1: after the pipeline up to make_codes has run on a fresh encoder for a
\* non-empty text, no code of a symbol of the text is a prefix of the code of
\* another symbol of the text.
C1_PrefixFree ==
    (CodesMade /\ text # <<>>) =>
        \A a \in Range(text), b \in Range(text) :
            a # b => ~IsPrefix(codes[a], codes[b]) /\ ~IsPrefix(codes[b], codes[a])

C1_Witness ==
    /\ CodesMade
    /\ pc = "get_encoded_text"
    /\ NumSyms >= 3
    /\ \E a \in Range(text), b \in Range(text) : Len(codes[a]) < Len(codes[b])

\* C2: the output of compress (header byte, payload), decoded with the
\* reverse_codes compress produced, is the text that was compressed.
C2_RoundTrip ==
    (caller = "compress" /\ pc = "done" /\ text # <<>>) =>
        decode(output, reverse_codes) = [ok |-> TRUE, symbols |-> text]

\* The round trip holds for every text with at least two distinct symbols.
RoundTripTwoSymbols ==
    (caller = "compress" /\ pc = "done" /\ NumSyms >= 2) =>
        decode(output, reverse_codes) = [ok |-> TRUE, symbols |-> text]

\* C3: for a text of one distinct symbol the frequency table has that one
\* entry, the tree is a single leaf and the symbol's code is not empty.
C3_SingleSymbolCodeNonEmpty ==
    (caller = "compress" /\ err = "none" /\ NumSyms = 1) =>
        \A a \in Range(text) :
            /\ FreqDictBuilt => freq_dict = << <<a, Len(text)>> >>
            /\ pc = "make_codes" =>
                   Len(heap) = 1 /\ nodes[heap[1]] = Node(a, Len(text))
            /\ CodesMade => codes[a] # <<>>

\* C4: for an empty text the tree-building stage (make_heap, merge_nodes)
\* raises EmptyInput: the pipeline never gets past it, and no other error is
\* raised.
C4_EmptyInputRejected ==
    EmptyRead =>
        /\ pc \in {"make_frequency_dict", "make_heap", "merge_nodes"}
        /\ err \in {"none", "EmptyInput"}

\* C5: after pad_encoded_text the padding is 8 - (len mod 8), lies in 1..8,
\* is stored in self.padding, the padded string is the input followed by
\* that many "0" and has a length that is a multiple of 8; the first byte
\* compress writes is that padding.
C5_Padding ==
    PadDone =>
        /\ ret_padding = 8 - (Len(encoded_text) % 8)
        /\ ret_padding \in 1..8
        /\ padding = ret_padding
        /\ Len(padded_text) % 8 = 0
        /\ Len(padded_text) = Len(encoded_text) + ret_padding
        /\ SubSeq(padded_text, 1, Len(encoded_text)) = encoded_text
        /\ \A i \in (Len(encoded_text) + 1)..Len(padded_text) : padded_text[i] = "0"
        /\ (caller = "compress" /\ pc = "done") =>
               /\ output[1] = ret_padding
               /\ Len(output) = 1 + Len(padded_text) \div 8

C5_Witness ==
    /\ caller = "compress"
    /\ pc = "done"
    /\ Len(encoded_text) = 8
    /\ output[1] = 8

C7_NoStateAcrossCalls ==
    (caller = "compress" /\ pc = "done") =>
        /\ heap = <<>>
        /\ DOMAIN codes = Range(text)
        /\ DOMAIN reverse_codes = {codes[c] : c \in DOMAIN codes}
        /\ \A c \in DOMAIN codes : reverse_codes[codes[c]] = c

\* C8: the table make_frequency_dict returns has one entry per symbol of
\* the text, holding the number of its occurrences (at least 1); the counts
\* add up to the length of the text; the empty text gives the empty table.
C8_FrequencyConservation ==
    FreqDictBuilt =>
        /\ {freq_dict[i][1] : i \in DOMAIN freq_dict} = Range(text)
        /\ \A i \in DOMAIN freq_dict, j \in DOMAIN freq_dict :
               freq_dict[i][1] = freq_dict[j][1] => i = j
        /\ \A i \in DOMAIN freq_dict :
               /\ freq_dict[i][2] = Count(text, freq_dict[i][1])
               /\ freq_dict[i][2] >= 1
        /\ SumCounts(freq_dict) = Len(text)
        /\ text = <<>> => freq_dict = <<>>

C8_Witness ==
    /\ caller = "compress"
    /\ pc = "make_heap"
    /\ Len(freq_dict) >= 2
    /\ \E i \in DOMAIN freq_dict : freq_dict[i][2] >= 2

\* C9: an iteration of merge_nodes takes out of the heap a first node of
\* least frequency (the heap's root) and a second of least frequency among
\* the rest, makes the first the left and the second the right child of a
\* new node without a character whose frequency is their sum, and puts that
\* node into the heap.
C9_MergePopsTwoSmallest ==
    [][(pc = "merge_nodes" /\ pc' = "merge_nodes") =>
          LET m == nodes'[Len(nodes')]
              rest == Range(heap) \ {m.left, m.right}
          IN  /\ Len(nodes') = Len(nodes) + 1
              /\ SubSeq(nodes', 1, Len(nodes)) = nodes
              /\ m.left = heap[1]
              /\ m.right \in Range(heap)
              /\ m.left # m.right
              /\ \A i \in Range(heap) : nodes[m.left].freq <= nodes[i].freq
              /\ nodes[m.left].freq <= nodes[m.right].freq
              /\ \A i \in rest : nodes[m.right].freq <= nodes[i].freq
              /\ m.char = NoChar
              /\ m.freq = nodes[m.left].freq + nodes[m.right].freq
              /\ Len(heap') = Len(heap) - 1
              /\ Range(heap') = rest \cup {Len(nodes')}]_vars

C9_Witness ==
    /\ pc = "merge_nodes"
    /\ NumInternal >= 1
    /\ LET m == nodes[Len(nodes)]
       IN  /\ m.char = NoChar
           /\ nodes[m.left].freq < nodes[m.right].freq
           /\ \E i \in Range(heap) : i # Len(nodes) /\ nodes[m.right].freq < nodes[i].freq

\* C10: with n >= 1 distinct symbols, make_heap leaves n nodes in the heap;
\* while merge_nodes runs, the frequencies in the heap add up to the length
\* of the text and the heap holds n nodes less one per merge; every
\* iteration shortens the heap by one node, so the loop ends, and it ends
\* after n - 1 merges with one node whose frequency is the length of the
\* text and whose leaves are the n symbols.
C10_Inv ==
    (caller = "compress" /\ err = "none" /\ NumSyms >= 1) =>
        /\ pc = "merge_nodes" =>
               /\ Len(heap) >= 1
               /\ Len(heap) + NumInternal = NumSyms
               /\ NumInternal = 0 => Len(nodes) = NumSyms
               /\ HeapFreqSum(nodes, heap) = Len(text)
        /\ pc = "make_codes" =>
               /\ Len(heap) = 1
               /\ NumInternal = NumSyms - 1
               /\ nodes[heap[1]].freq = Len(text)
               /\ Leaves(nodes, heap[1]) = Range(text)

C10_MergeTerminates ==
    /\ []C10_Inv
    /\ [][(pc = "merge_nodes" /\ NumSyms >= 1) =>
             \/ /\ pc' = "merge_nodes"
                /\ Len(heap) > 1
                /\ Len(heap') = Len(heap) - 1
             \/ /\ pc' = "make_codes"
                /\ Len(heap) = 1
                /\ heap' = heap]_vars

C10_Witness ==
    /\ caller = "compress"
    /\ pc = "make_codes"
    /\ NumSyms = 4
    /\ NumInternal = 3
    /\ Len(heap) = 1

====
